---- MODULE Spec2Model ----
(***************************************************************************)
(* HMACWidget: a React component that signs a payload with HMAC-SHA2 and   *)
(* verifies a received signature, in the browser, through Web Crypto.      *)
(* The module models the component's state, its two debounced effects, the *)
(* asynchronous generateHMAC / verifyHMAC operations with their await      *)
(* points, and the text conversions (hex, base64, trim) as the code        *)
(* computes them.                                                          *)
(*                                                                         *)
(* Strings are sequences of one-character strings: "ab" is <<"a", "b">>.   *)
(* Byte arrays (Uint8Array) are sequences of integers in 0..255.           *)
(***************************************************************************)
EXTENDS Integers, Sequences, FiniteSets, TLC

(***************************************************************************)
(* Bounds of the model.                                                    *)
(***************************************************************************)
\* Operations that may be suspended on the crypto primitive at one time.
MaxOps == 2
\* Input changes (key strokes, pastes, button clicks) in one behaviour.
MaxEdits == 4
\* Granularity of the clock, in milliseconds.
TickMs == 100

(***************************************************************************)
(* Program constants.                                                      *)
(***************************************************************************)
\* setTimeout(..., 300): the debounce delay of both effects, in milliseconds.
DebounceMs == 300

Algorithms == {"HS256", "HS384", "HS512"}
Encodings == {"hex", "base64"}

(***************************************************************************)
(* Characters.                                                             *)
(***************************************************************************)
\* The printable ASCII characters in code order: " " (32) to "_" (95), and
\* "a" (97) to "~" (126).  A TLA+ string cannot hold the backquote (96).
AsciiLow ==
  << " ", "!", "\"", "#", "$", "%", "&", "'", "(", ")", "*", "+", ",", "-", ".", "/",
     "0", "1", "2", "3", "4", "5", "6", "7", "8", "9", ":", ";", "<", "=", ">", "?",
     "@", "A", "B", "C", "D", "E", "F", "G", "H", "I", "J", "K", "L", "M", "N", "O",
     "P", "Q", "R", "S", "T", "U", "V", "W", "X", "Y", "Z", "[", "\\", "]", "^", "_" >>

AsciiHigh ==
  << "a", "b", "c", "d", "e", "f", "g", "h", "i", "j", "k", "l", "m", "n", "o", "p",
     "q", "r", "s", "t", "u", "v", "w", "x", "y", "z", "{", "|", "}", "~" >>

\* The code of every character of the model, tabulated once.
CharCodeTable ==
  [c \in {"\t", "\n", "\f", "\r"}
         \cup {AsciiLow[i] : i \in 1..Len(AsciiLow)}
         \cup {AsciiHigh[i] : i \in 1..Len(AsciiHigh)} |->
     CASE c = "\t" -> 9
       [] c = "\n" -> 10
       [] c = "\f" -> 12
       [] c = "\r" -> 13
       [] \E i \in 1..Len(AsciiLow) : AsciiLow[i] = c ->
            31 + (CHOOSE i \in 1..Len(AsciiLow) : AsciiLow[i] = c)
       [] OTHER -> 96 + (CHOOSE i \in 1..Len(AsciiHigh) : AsciiHigh[i] = c)]

\* TextEncoder.encode / charCodeAt on an ASCII character: its code.
CharCode(c) == CharCodeTable[c]

\* new TextEncoder().encode(s): the UTF-8 bytes of an ASCII string.
Encode(s) == [i \in 1..Len(s) |-> CharCode(s[i])]

\* The characters String.prototype.trim removes (those the model types).
TrimWhitespace == {" ", "\t", "\n", "\r", "\f"}

RECURSIVE TrimStart(_)
TrimStart(s) ==
  IF s = <<>> THEN s
  ELSE IF Head(s) \in TrimWhitespace THEN TrimStart(Tail(s)) ELSE s

RECURSIVE TrimEnd(_)
TrimEnd(s) ==
  IF s = <<>> THEN s
  ELSE IF s[Len(s)] \in TrimWhitespace THEN TrimEnd(SubSeq(s, 1, Len(s) - 1)) ELSE s

\* s.trim()
Trim(s) == TrimEnd(TrimStart(s))

\* !s.trim(): the string is empty after trimming.
IsBlank(s) == Trim(s) = <<>>

(***************************************************************************)
(* The platform's HMAC.  crypto.subtle is not code of the repository; it   *)
(* is a deterministic keyed digest of the hash's output length.  The       *)
(* digest below is a stand-in with those two properties, not SHA-2.        *)
(***************************************************************************)
GetAlgorithmName(algo) ==
  CASE algo = "HS256" -> "SHA-256"
    [] algo = "HS384" -> "SHA-384"
    [] algo = "HS512" -> "SHA-512"
    [] OTHER -> "SHA-256"

\* Output length in bytes of the named hash.
DigestLength(hash) ==
  CASE hash = "SHA-256" -> 32
    [] hash = "SHA-384" -> 48
    [] hash = "SHA-512" -> 64

RECURSIVE Absorb(_, _)
Absorb(h, bytes) ==
  IF bytes = <<>> THEN h
  ELSE Absorb((h * 31 + Head(bytes) + 1) % 65521, Tail(bytes))

\* crypto.subtle.sign('HMAC', key, data), the key imported with `hash`.
SubtleSign(hash, keyData, messageData) ==
  LET seed == Absorb(Absorb(7, keyData) + DigestLength(hash), messageData)
  IN  [i \in 1..DigestLength(hash) |-> ((seed + i) * (2 * i + 1) + (seed \div 256)) % 256]

\* crypto.subtle.verify('HMAC', key, signature, data): the recomputed HMAC
\* equals the signature, byte for byte and in length.
SubtleVerify(hash, keyData, signature, messageData) ==
  SubtleSign(hash, keyData, messageData) = signature

(***************************************************************************)
(* Hex.                                                                    *)
(***************************************************************************)
HexDigits == <<"0", "1", "2", "3", "4", "5", "6", "7",
               "8", "9", "a", "b", "c", "d", "e", "f">>

\* b.toString(16)
ToString16(b) ==
  IF b < 16 THEN <<HexDigits[b + 1]>>
  ELSE <<HexDigits[(b \div 16) + 1], HexDigits[(b % 16) + 1]>>

\* s.padStart(2, '0')
PadStart2(s) == IF Len(s) < 2 THEN <<"0">> \o s ELSE s

RECURSIVE Join(_)
Join(parts) == IF parts = <<>> THEN <<>> ELSE Head(parts) \o Join(Tail(parts))

\* Mutant of BytesToHex: the padStart(2, '0') is left out.
BytesToHexNoPad(bytes) == Join([i \in 1..Len(bytes) |-> ToString16(bytes[i])])

\* Array.from(bytes).map(b => b.toString(16).padStart(2, '0')).join('')
BytesToHex(bytes) == Join([i \in 1..Len(bytes) |-> PadStart2(ToString16(bytes[i]))])

\* The character class [0-9a-fA-F].
IsHexDigit(c) ==
  LET k == CharCode(c)
  IN  (48 <= k /\ k <= 57) \/ (97 <= k /\ k <= 102) \/ (65 <= k /\ k <= 70)

\* receivedSignature.replace(/[^0-9a-fA-F]/g, '')
StripNonHex(s) == SelectSeq(s, IsHexDigit)

\* The value parseInt gives one hex digit.
HexDigitValue(c) ==
  LET k == CharCode(c)
  IN  IF k <= 57 THEN k - 48 ELSE IF k <= 70 THEN k - 55 ELSE k - 87

RECURSIVE ParseInt16From(_, _)
ParseInt16From(acc, s) ==
  IF s = <<>> THEN acc ELSE ParseInt16From(acc * 16 + HexDigitValue(Head(s)), Tail(s))

\* parseInt(byte, 16) on a string of hex digits.
ParseInt16(s) == ParseInt16From(0, s)

\* hex.match(/.{1,2}/g) || []: the string cut, greedily and from the left,
\* into pieces of two characters; a last piece of one when the length is odd.
RECURSIVE MatchPairs(_)
MatchPairs(hex) ==
  IF hex = <<>> THEN <<>>
  ELSE IF Len(hex) = 1 THEN <<hex>>
  ELSE <<SubSeq(hex, 1, 2)>> \o MatchPairs(SubSeq(hex, 3, Len(hex)))

\* Mutant of HexToBytes: only whole pairs are decoded (/.{2}/g).
HexToBytesWholePairs(receivedSig) ==
  LET pieces == MatchPairs(StripNonHex(receivedSig))
      whole == SelectSeq(pieces, LAMBDA p : Len(p) = 2)
  IN  [i \in 1..Len(whole) |-> ParseInt16(whole[i])]

\* new Uint8Array(hex.match(/.{1,2}/g)?.map(byte => parseInt(byte, 16)) || [])
HexToBytes(receivedSig) ==
  LET pieces == MatchPairs(StripNonHex(receivedSig))
  IN  [i \in 1..Len(pieces) |-> ParseInt16(pieces[i])]

(***************************************************************************)
(* Base64.                                                                 *)
(***************************************************************************)
Base64Alphabet ==
  << "A", "B", "C", "D", "E", "F", "G", "H", "I", "J", "K", "L", "M", "N", "O", "P",
     "Q", "R", "S", "T", "U", "V", "W", "X", "Y", "Z", "a", "b", "c", "d", "e", "f",
     "g", "h", "i", "j", "k", "l", "m", "n", "o", "p", "q", "r", "s", "t", "u", "v",
     "w", "x", "y", "z", "0", "1", "2", "3", "4", "5", "6", "7", "8", "9", "+", "/" >>

RECURSIVE Btoa(_)
\* btoa(String.fromCharCode(...bytes)): standard base64 with padding.
Btoa(b) ==
  IF b = <<>> THEN <<>>
  ELSE IF Len(b) = 1 THEN
    <<Base64Alphabet[(b[1] \div 4) + 1], Base64Alphabet[((b[1] % 4) * 16) + 1], "=", "=">>
  ELSE IF Len(b) = 2 THEN
    <<Base64Alphabet[(b[1] \div 4) + 1],
      Base64Alphabet[((b[1] % 4) * 16 + (b[2] \div 16)) + 1],
      Base64Alphabet[((b[2] % 16) * 4) + 1], "=">>
  ELSE
    <<Base64Alphabet[(b[1] \div 4) + 1],
      Base64Alphabet[((b[1] % 4) * 16 + (b[2] \div 16)) + 1],
      Base64Alphabet[((b[2] % 16) * 4 + (b[3] \div 64)) + 1],
      Base64Alphabet[(b[3] % 64) + 1]>> \o Btoa(SubSeq(b, 4, Len(b)))

\* ASCII whitespace, which atob removes before decoding.
AsciiWhitespace == {"\t", "\n", "\f", "\r", " "}

IsBase64Char(c) ==
  LET k == CharCode(c)
  IN  \/ (65 <= k /\ k <= 90) \/ (97 <= k /\ k <= 122) \/ (48 <= k /\ k <= 57)
      \/ c = "+" \/ c = "/"

Base64Index(c) ==
  LET k == CharCode(c)
  IN  IF c = "+" THEN 62
      ELSE IF c = "/" THEN 63
      ELSE IF k <= 57 THEN k + 4
      ELSE IF k <= 90 THEN k - 65
      ELSE k - 71

IsNotAsciiWhitespace(c) == c \notin AsciiWhitespace

\* atob's first steps: whitespace removed; then, when the length is a
\* multiple of four, one or two trailing "=" removed.
AtobData(s) ==
  LET d == SelectSeq(s, IsNotAsciiWhitespace)
      n == Len(d)
  IN  IF n > 0 /\ n % 4 = 0 /\ d[n] = "="
      THEN IF d[n - 1] = "=" THEN SubSeq(d, 1, n - 2) ELSE SubSeq(d, 1, n - 1)
      ELSE d

\* atob(s) throws InvalidCharacterError.
AtobThrows(s) ==
  LET d == AtobData(s)
  IN  Len(d) % 4 = 1 \/ \E i \in 1..Len(d) : ~IsBase64Char(d[i])

RECURSIVE DecodeSextets(_)
DecodeSextets(d) ==
  IF Len(d) < 2 THEN <<>>
  ELSE IF Len(d) = 2 THEN
    <<Base64Index(d[1]) * 4 + (Base64Index(d[2]) \div 16)>>
  ELSE IF Len(d) = 3 THEN
    <<Base64Index(d[1]) * 4 + (Base64Index(d[2]) \div 16),
      (Base64Index(d[2]) % 16) * 16 + (Base64Index(d[3]) \div 4)>>
  ELSE
    <<Base64Index(d[1]) * 4 + (Base64Index(d[2]) \div 16),
      (Base64Index(d[2]) % 16) * 16 + (Base64Index(d[3]) \div 4),
      (Base64Index(d[3]) % 4) * 64 + Base64Index(d[4])>> \o DecodeSextets(SubSeq(d, 5, Len(d)))

\* Uint8Array.from(atob(s), c => c.charCodeAt(0)), when atob does not throw.
AtobBytes(s) == DecodeSextets(AtobData(s))

\* The signature string generateHMAC displays for the raw signature bytes.
EncodeSignature(signatureArray, enc) ==
  IF enc = "hex" THEN BytesToHex(signatureArray) ELSE Btoa(signatureArray)

(***************************************************************************)
(* State.                                                                  *)
(***************************************************************************)
VARIABLES
  \* useState: the five inputs
  payload, secret, algorithm, encoding, receivedSignature,
  \* useState: what the component displays
  generatedSignature, verificationResult, isGenerating, error,
  \* the browser's pending setTimeout callbacks, in creation order
  timers,
  \* the generateHMAC / verifyHMAC calls suspended at an await, in start order
  ops,
  \* history: input changes so far
  edits,
  \* history: milliseconds since the latest input change (capped at DebounceMs)
  sinceChange,
  \* history: calls of generateHMAC / verifyHMAC by timers since the current
  \* burst of changes began (capped at 2), and whether that burst changed
  \* receivedSignature
  genStarts, verStarts, burstHasReceived,
  \* history: input changes in the current burst (capped at 2)
  burstChanges,
  \* history: the inputs of the call that last wrote generatedSignature, and of
  \* the verifyHMAC call that last wrote verificationResult
  signedInputs, verifiedInputs,
  \* history: a tuple that verified as valid, and the field of it that was
  \* then changed in one character
  base

inputs == <<payload, secret, algorithm, encoding, receivedSignature>>
display == <<generatedSignature, verificationResult, isGenerating, error>>
clock == <<sinceChange, genStarts, verStarts, burstHasReceived, burstChanges>>
vars == <<payload, secret, algorithm, encoding, receivedSignature,
          generatedSignature, verificationResult, isGenerating, error,
          timers, ops, edits, sinceChange, genStarts, verStarts,
          burstHasReceived, burstChanges, signedInputs, verifiedInputs, base>>

\* verificationResult === null (the record's type field is "null").
NullResult == [isValid |-> FALSE, message |-> "", type |-> "null"]
SuccessResult == [isValid |-> TRUE, message |-> "Signature is valid!", type |-> "success"]
InvalidResult == [isValid |-> FALSE, message |-> "Signature is invalid!", type |-> "error"]
\* err.message of atob's InvalidCharacterError, and of a Web Crypto failure.
InvalidCharacterMessage == "InvalidCharacterError"
CryptoFailureMessage == "OperationError"
WarningResult(msg) ==
  [isValid |-> FALSE, message |-> "Error during verification: " \o msg, type |-> "warning"]
GenerationError == "Error generating HMAC: " \o CryptoFailureMessage

\* Mutant of VerificationOutcome: the two branches are exchanged.
VerificationOutcomeSwapped(isValid) == IF isValid THEN InvalidResult ELSE SuccessResult

\* if (isValid) { success } else { error }
VerificationOutcome(isValid) == IF isValid THEN SuccessResult ELSE InvalidResult

\* No call has written the value yet (or generateHMAC reset it).
NoCall == [none |-> TRUE]
NoBase == [none |-> TRUE]

\* useCallback: the inputs a generateHMAC / verifyHMAC of one render closes over.
GenerateClosure(p, s, a, e) ==
  [payload |-> p, secret |-> s, algorithm |-> a, encoding |-> e]
VerifyClosure(p, s, a, e, r) ==
  [payload |-> p, secret |-> s, receivedSignature |-> r, algorithm |-> a, encoding |-> e]
CurrentGenerate == GenerateClosure(payload, secret, algorithm, encoding)
CurrentVerify == VerifyClosure(payload, secret, algorithm, encoding, receivedSignature)

Min(a, b) == IF a < b THEN a ELSE b
Max(a, b) == IF a > b THEN a ELSE b
Remove(seq, i) == SubSeq(seq, 1, i - 1) \o SubSeq(seq, i + 1, Len(seq))

(***************************************************************************)
(* The debounce effects.                                                   *)
(***************************************************************************)
\* Mutant of ClearTimeout: the effect returns no cleanup.
ClearTimeoutMissing(ts, kind) == ts

\* clearTimeout(timeoutId): the effect's cleanup removes the timer that the
\* effect's previous run created, if it has not fired.
ClearTimeout(ts, kind) ==
  LET mine == {i \in 1..Len(ts) : ts[i].kind = kind}
  IN  IF mine = {} THEN ts
      ELSE Remove(ts, CHOOSE i \in mine : \A j \in mine : j <= i)

\* setTimeout(() => callback(), 300)
SetTimeout(ts, kind, c) ==
  Append(ts, [kind |-> kind, remaining |-> DebounceMs, c |-> c])

\* The timers after a render with inputs p, s, a, e, r: an effect whose
\* dependencies changed runs its cleanup and then runs again.
\*   generate effect: [payload, secret, algorithm, encoding, generateHMAC]
\*   verify effect:   [receivedSignature, verifyHMAC], and verifyHMAC changes
\*                    with any of the five inputs
RunEffects(ts, p, s, a, e, r) ==
  LET genChanged == <<p, s, a, e>> # <<payload, secret, algorithm, encoding>>
      verChanged == genChanged \/ r # receivedSignature
      t1 == IF genChanged
            THEN SetTimeout(ClearTimeout(ts, "generate"), "generate", GenerateClosure(p, s, a, e))
            ELSE ts
  IN  IF verChanged
      THEN SetTimeout(ClearTimeout(t1, "verify"), "verify", VerifyClosure(p, s, a, e, r))
      ELSE t1

\* A timer whose delay has elapsed runs before time advances further and
\* before the next input event.
TimerDue == timers # <<>> /\ Head(timers).remaining = 0

\* One input event: setPayload / setSecret / setAlgorithm / setEncoding /
\* setReceivedSignature with a value that differs, the render, the effects.
Change(p, s, a, e, r) ==
  /\ edits < MaxEdits
  /\ ~TimerDue
  /\ <<p, s, a, e, r>> # inputs
  /\ payload' = p /\ secret' = s /\ algorithm' = a /\ encoding' = e
  /\ receivedSignature' = r
  /\ timers' = RunEffects(timers, p, s, a, e, r)
  /\ edits' = edits + 1
  /\ sinceChange' = 0
  /\ genStarts' = IF sinceChange >= DebounceMs THEN 0 ELSE genStarts
  /\ verStarts' = IF sinceChange >= DebounceMs THEN 0 ELSE verStarts
  /\ burstHasReceived' =
       IF sinceChange >= DebounceMs THEN r # receivedSignature
       ELSE burstHasReceived \/ r # receivedSignature
  /\ burstChanges' = IF sinceChange >= DebounceMs THEN 1 ELSE Min(2, burstChanges + 1)
  /\ UNCHANGED <<display, ops, signedInputs, verifiedInputs, base>>

(***************************************************************************)
(* Values the user types in the reactive specification.                    *)
(***************************************************************************)
Payloads == {<<>>, <<" ">>, <<"a">>, <<"b">>}
Secrets == {<<>>, <<"k">>}
\* Typed received signatures; the user may also paste the displayed one.
TypedSignatures == {<<>>, <<"!">>, <<"0", "0">>}

SetPayload == \E v \in Payloads : Change(v, secret, algorithm, encoding, receivedSignature)
SetSecret == \E v \in Secrets : Change(payload, v, algorithm, encoding, receivedSignature)
SetAlgorithm == \E a \in Algorithms : Change(payload, secret, a, encoding, receivedSignature)
SetEncoding == \E e \in Encodings : Change(payload, secret, algorithm, e, receivedSignature)
SetReceivedSignature ==
  \E v \in TypedSignatures \cup {generatedSignature} :
    Change(payload, secret, algorithm, encoding, v)

\* TickMs milliseconds pass.
Tick ==
  /\ ~TimerDue
  /\ sinceChange < DebounceMs
  /\ timers' = [i \in 1..Len(timers) |->
                  [timers[i] EXCEPT !.remaining = Max(0, @ - TickMs)]]
  /\ sinceChange' = Min(DebounceMs, sinceChange + TickMs)
  /\ UNCHANGED <<inputs, display, ops, edits, genStarts, verStarts,
                 burstHasReceived, burstChanges, signedInputs, verifiedInputs, base>>

(***************************************************************************)
(* generateHMAC and verifyHMAC, to their first await.                      *)
(***************************************************************************)
GenerateHMAC(c) ==
  IF IsBlank(c.payload) \/ IsBlank(c.secret)
  THEN /\ generatedSignature' = <<>>
       /\ error' = ""
       /\ signedInputs' = c
       /\ UNCHANGED <<verificationResult, isGenerating, ops, verifiedInputs>>
  ELSE /\ Len(ops) < MaxOps
       /\ isGenerating' = TRUE
       /\ error' = ""
       /\ verificationResult' = NullResult
       /\ verifiedInputs' = NoCall
       /\ ops' = Append(ops, [kind |-> "generate", stage |-> "importKey", c |-> c])
       /\ UNCHANGED <<generatedSignature, signedInputs>>

VerifyHMAC(c) ==
  /\ IF IsBlank(c.payload) \/ IsBlank(c.secret) \/ IsBlank(c.receivedSignature)
     THEN /\ verificationResult' = NullResult
          /\ verifiedInputs' = c
          /\ UNCHANGED <<error, ops>>
     ELSE /\ Len(ops) < MaxOps
          /\ error' = ""
          /\ ops' = Append(ops, [kind |-> "verify", stage |-> "importKey", c |-> c,
                                 receivedSignatureBytes |-> <<>>])
          /\ UNCHANGED <<verificationResult, verifiedInputs>>
  /\ UNCHANGED <<generatedSignature, isGenerating, signedInputs>>

\* The generate effect's timer fires: () => generateHMAC().
FireGenerateTimer ==
  /\ TimerDue
  /\ Head(timers).kind = "generate"
  /\ timers' = Tail(timers)
  /\ GenerateHMAC(Head(timers).c)
  /\ genStarts' = Min(2, genStarts + 1)
  /\ UNCHANGED <<inputs, edits, sinceChange, verStarts, burstHasReceived,
                 burstChanges, base>>

\* The verify effect's timer fires: () => verifyHMAC().
FireVerifyTimer ==
  /\ TimerDue
  /\ Head(timers).kind = "verify"
  /\ timers' = Tail(timers)
  /\ VerifyHMAC(Head(timers).c)
  /\ verStarts' = Min(2, verStarts + 1)
  /\ UNCHANGED <<inputs, edits, sinceChange, genStarts, burstHasReceived,
                 burstChanges, base>>

(***************************************************************************)
(* The continuations after each await.  `fail` is the crypto primitive      *)
(* rejecting (crypto.subtle missing, an unsupported hash, ...).            *)
(***************************************************************************)
\* catch (err) { setError(...); setGeneratedSignature('') } finally { ... }
GenerateCatch(i) ==
  /\ error' = GenerationError
  /\ generatedSignature' = <<>>
  /\ isGenerating' = FALSE
  /\ signedInputs' = ops[i].c
  /\ ops' = Remove(ops, i)
  /\ UNCHANGED <<verificationResult, verifiedInputs>>

\* await crypto.subtle.importKey(...) settles in generateHMAC.
GenerateImportKeyDone(i, fail) ==
  /\ ops[i].kind = "generate" /\ ops[i].stage = "importKey"
  /\ IF fail THEN GenerateCatch(i)
     ELSE /\ ops' = [ops EXCEPT ![i].stage = "sign"]
          /\ UNCHANGED <<display, signedInputs, verifiedInputs>>
  /\ UNCHANGED <<inputs, timers, edits, clock, base>>

\* await crypto.subtle.sign(...) settles.
GenerateSignDone(i, fail) ==
  /\ ops[i].kind = "generate" /\ ops[i].stage = "sign"
  /\ IF fail THEN GenerateCatch(i)
     ELSE LET c == ops[i].c
              signature == SubtleSign(GetAlgorithmName(c.algorithm),
                                      Encode(c.secret), Encode(c.payload))
          IN  /\ generatedSignature' = EncodeSignature(signature, c.encoding)
              /\ isGenerating' = FALSE
              /\ signedInputs' = c
              /\ ops' = Remove(ops, i)
              /\ UNCHANGED <<verificationResult, error, verifiedInputs>>
  /\ UNCHANGED <<inputs, timers, edits, clock, base>>

\* Mutant of VerifyCatch: the catch block reports an invalid signature.
VerifyCatchReportsInvalid(i, msg) ==
  /\ verificationResult' = InvalidResult
  /\ verifiedInputs' = ops[i].c
  /\ ops' = Remove(ops, i)

\* catch (err) { setVerificationResult({ ..., type: 'warning' }) }
VerifyCatch(i, msg) ==
  /\ verificationResult' = WarningResult(msg)
  /\ verifiedInputs' = ops[i].c
  /\ ops' = Remove(ops, i)

\* Mutant of DecodeThrows: the hex decoder rejects a string with a character
\* that is no hex digit, or with an odd number of digits.
DecodeThrowsStrictHex(c) ==
  IF c.encoding = "hex"
  THEN StripNonHex(c.receivedSignature) # c.receivedSignature
       \/ Len(c.receivedSignature) % 2 = 1
  ELSE AtobThrows(c.receivedSignature)

\* The decoding of the received signature throws: only atob can.
DecodeThrows(c) == c.encoding # "hex" /\ AtobThrows(c.receivedSignature)

\* receivedSignatureBytes, by the selected encoding.
DecodeReceived(c) ==
  IF c.encoding = "hex" THEN HexToBytes(c.receivedSignature)
  ELSE AtobBytes(c.receivedSignature)

\* await crypto.subtle.importKey(...) settles in verifyHMAC; the received
\* signature is then decoded, and atob may throw.
VerifyImportKeyDone(i, fail) ==
  /\ ops[i].kind = "verify" /\ ops[i].stage = "importKey"
  /\ LET c == ops[i].c
     IN  IF fail THEN VerifyCatch(i, CryptoFailureMessage)
         ELSE IF DecodeThrows(c) THEN VerifyCatch(i, InvalidCharacterMessage)
         ELSE /\ ops' = [ops EXCEPT ![i].stage = "verify",
                                    ![i].receivedSignatureBytes = DecodeReceived(c)]
              /\ UNCHANGED <<verificationResult, verifiedInputs>>
  /\ UNCHANGED <<inputs, generatedSignature, isGenerating, error, timers,
                 edits, clock, signedInputs, base>>

\* await crypto.subtle.verify(...) settles.
VerifyVerifyDone(i, fail) ==
  /\ ops[i].kind = "verify" /\ ops[i].stage = "verify"
  /\ LET c == ops[i].c
     IN  IF fail THEN VerifyCatch(i, CryptoFailureMessage)
         ELSE /\ verificationResult' =
                   VerificationOutcome(SubtleVerify(GetAlgorithmName(c.algorithm),
                                                    Encode(c.secret),
                                                    ops[i].receivedSignatureBytes,
                                                    Encode(c.payload)))
              /\ verifiedInputs' = c
              /\ ops' = Remove(ops, i)
  /\ UNCHANGED <<inputs, generatedSignature, isGenerating, error, timers,
                 edits, clock, signedInputs, base>>

GenerateImportKeySettles == \E i \in 1..Len(ops), fail \in BOOLEAN : GenerateImportKeyDone(i, fail)
GenerateSignSettles == \E i \in 1..Len(ops), fail \in BOOLEAN : GenerateSignDone(i, fail)
VerifyImportKeySettles == \E i \in 1..Len(ops), fail \in BOOLEAN : VerifyImportKeyDone(i, fail)
VerifyVerifySettles == \E i \in 1..Len(ops), fail \in BOOLEAN : VerifyVerifyDone(i, fail)

(***************************************************************************)
(* The component: mounted with empty inputs, both effects run once.        *)
(***************************************************************************)
Init ==
  /\ payload = <<>> /\ secret = <<>> /\ algorithm = "HS256" /\ encoding = "hex"
  /\ receivedSignature = <<>>
  /\ generatedSignature = <<>> /\ verificationResult = NullResult
  /\ isGenerating = FALSE /\ error = ""
  /\ timers = SetTimeout(SetTimeout(<<>>, "generate",
                                    GenerateClosure(<<>>, <<>>, "HS256", "hex")),
                         "verify", VerifyClosure(<<>>, <<>>, "HS256", "hex", <<>>))
  /\ ops = <<>>
  /\ edits = 0 /\ sinceChange = 0
  /\ genStarts = 0 /\ verStarts = 0 /\ burstHasReceived = FALSE /\ burstChanges = 0
  /\ signedInputs = NoCall /\ verifiedInputs = NoCall
  /\ base = NoBase

Next ==
  \/ SetPayload
  \/ SetSecret
  \/ SetAlgorithm
  \/ SetEncoding
  \/ SetReceivedSignature
  \/ Tick
  \/ FireGenerateTimer
  \/ FireVerifyTimer
  \/ GenerateImportKeySettles
  \/ GenerateSignSettles
  \/ VerifyImportKeySettles
  \/ VerifyVerifySettles

Spec == Init /\ [][Next]_vars

(***************************************************************************)
(* The sign / verify core on its own: inputs drawn from bounded sets, the  *)
(* two callbacks called directly, one at a time, and run to completion.    *)
(***************************************************************************)
PurePayloads == {<<>>, <<" ">>, <<"a">>, <<"h", "i">>}
PureSecrets == {<<>>, <<"k">>}
PureReceived ==
  {<<>>, <<" ">>, <<"!">>, <<"=">>, <<"z", "z">>, <<"0", "0">>, <<"a", "b", "c">>,
   <<"A", "b", ":", "c", "D", " ">>}
\* The characters one-character changes put in.
EditChars == {"0", "1", "A", "B", "g", "h", " ", "=", "!"}

PureInit ==
  /\ payload \in PurePayloads /\ secret \in PureSecrets
  /\ algorithm \in Algorithms /\ encoding \in Encodings
  /\ receivedSignature \in PureReceived
  /\ generatedSignature = <<>> /\ verificationResult = NullResult
  /\ isGenerating = FALSE /\ error = ""
  /\ timers = <<>> /\ ops = <<>>
  /\ edits = 0 /\ sinceChange = DebounceMs
  /\ genStarts = 0 /\ verStarts = 0 /\ burstHasReceived = FALSE /\ burstChanges = 0
  /\ signedInputs = NoCall /\ verifiedInputs = NoCall
  /\ base = NoBase

\* generateHMAC() on the current inputs, once.
CallGenerate ==
  /\ ops = <<>> /\ signedInputs = NoCall
  /\ GenerateHMAC(CurrentGenerate)
  /\ UNCHANGED <<inputs, timers, edits, clock, base>>

\* verifyHMAC() on the current inputs.
CallVerify ==
  /\ ops = <<>>
  /\ VerifyHMAC(CurrentVerify)
  /\ UNCHANGED <<inputs, timers, edits, clock, base>>

\* The displayed signature is copied and pasted into the received field.
PasteGenerated ==
  /\ ops = <<>> /\ base = NoBase
  /\ generatedSignature # <<>>
  /\ receivedSignature # generatedSignature
  /\ receivedSignature' = generatedSignature
  /\ UNCHANGED <<payload, secret, algorithm, encoding, display, timers, ops,
                 edits, clock, signedInputs, verifiedInputs, base>>

\* The displayed result is `valid`, and it is the result for the current inputs.
ValidNow ==
  /\ ops = <<>>
  /\ verificationResult.type = "success"
  /\ verifiedInputs = CurrentVerify

\* One character of one field of a valid tuple is replaced by another.
EditPayloadChar ==
  \E i \in 1..Len(payload), ch \in EditChars :
    /\ ValidNow /\ base = NoBase
    /\ ch # payload[i]
    /\ payload' = [payload EXCEPT ![i] = ch]
    /\ base' = [field |-> "payload", c |-> CurrentVerify]
    /\ UNCHANGED <<secret, algorithm, encoding, receivedSignature, display,
                   timers, ops, edits, clock, signedInputs, verifiedInputs>>

EditSecretChar ==
  \E i \in 1..Len(secret), ch \in EditChars :
    /\ ValidNow /\ base = NoBase
    /\ ch # secret[i]
    /\ secret' = [secret EXCEPT ![i] = ch]
    /\ base' = [field |-> "secret", c |-> CurrentVerify]
    /\ UNCHANGED <<payload, algorithm, encoding, receivedSignature, display,
                   timers, ops, edits, clock, signedInputs, verifiedInputs>>

EditReceivedChar ==
  \E i \in 1..Len(receivedSignature), ch \in EditChars :
    /\ ValidNow /\ base = NoBase
    /\ ch # receivedSignature[i]
    /\ receivedSignature' = [receivedSignature EXCEPT ![i] = ch]
    /\ base' = [field |-> "receivedSignature", c |-> CurrentVerify]
    /\ UNCHANGED <<payload, secret, algorithm, encoding, display,
                   timers, ops, edits, clock, signedInputs, verifiedInputs>>

\* One character is typed after a valid received signature.
AppendReceivedChar ==
  \E ch \in EditChars :
    /\ ValidNow /\ base = NoBase
    /\ receivedSignature' = Append(receivedSignature, ch)
    /\ base' = [field |-> "appended", c |-> CurrentVerify]
    /\ UNCHANGED <<payload, secret, algorithm, encoding, display,
                   timers, ops, edits, clock, signedInputs, verifiedInputs>>

PureNext ==
  \/ CallGenerate
  \/ CallVerify
  \/ PasteGenerated
  \/ EditPayloadChar
  \/ EditSecretChar
  \/ EditReceivedChar
  \/ AppendReceivedChar
  \/ GenerateImportKeySettles
  \/ GenerateSignSettles
  \/ VerifyImportKeySettles
  \/ VerifyVerifySettles

PureSpec == PureInit /\ [][PureNext]_vars

(***************************************************************************)
(* Properties.                                                             *)
(***************************************************************************)
\* The closure has a payload, a secret and a received signature that are
\* non-empty after trimming: verifyHMAC goes past its early return.
Verifiable(c) ==
  ~IsBlank(c.payload) /\ ~IsBlank(c.secret) /\ ~IsBlank(c.receivedSignature)

\* The HMAC the platform computes for a closure's payload, secret and algorithm.
MacOf(c) == SubtleSign(GetAlgorithmName(c.algorithm), Encode(c.secret), Encode(c.payload))

\* The warning a failure of the crypto primitive itself produces.
CryptoWarning == WarningResult(CryptoFailureMessage)

\* The displayed verification result was written by verifyHMAC called on the
\* inputs as they are now, and nothing is in flight.
VerifiedNow == ops = <<>> /\ verifiedInputs = CurrentVerify

\* C1 (round trip): when verifyHMAC has run on a received signature equal to
\* the string generateHMAC produced for the same payload, secret, algorithm
\* and encoding (both non-empty after trimming), the result is the valid
\* outcome: type 'success', isValid true.  The only other end of such a run
\* is the warning of a crypto primitive that itself threw.
C1_RoundTrip ==
  (/\ VerifiedNow
   /\ signedInputs = CurrentGenerate
   /\ ~IsBlank(payload) /\ ~IsBlank(secret)
   /\ generatedSignature # <<>>
   /\ receivedSignature = generatedSignature)
  => \/ (verificationResult.type = "success" /\ verificationResult.isValid)
     \/ verificationResult = CryptoWarning

\* C1's case: a base64 HS512 signature was generated, pasted and verified.
C1_Witness ==
  /\ VerifiedNow
  /\ signedInputs = CurrentGenerate
  /\ generatedSignature # <<>>
  /\ receivedSignature = generatedSignature
  /\ algorithm = "HS512" /\ encoding = "base64"
  /\ verificationResult = SuccessResult

\* The tuple now differs in one character of one field from a tuple that
\* verified as valid, and verifyHMAC has run on it.
ChangedFromValid ==
  /\ base # NoBase
  /\ base.field \in {"payload", "secret", "receivedSignature"}
  /\ VerifiedNow

\* C2 as stated: after a one-character change of payload, secret or
\* receivedSignature to a valid tuple, verifyHMAC no longer yields valid
\* (`invalid` read as any outcome but valid), unless two HMACs collide.
C2_AnyChangeInvalidates ==
  ChangedFromValid =>
    \/ verificationResult.type # "success"
    \/ (base.field # "receivedSignature" /\ MacOf(CurrentVerify) = MacOf(base.c))

\* C2 as amended: a one-character change of payload or secret that leaves
\* both non-empty after trimming yields invalid unless the HMACs collide (and
\* no result when the field became empty after trimming); a one-character
\* change of receivedSignature yields invalid exactly when the changed string
\* decodes to other bytes, leaves the result valid when it decodes to the same
\* bytes, and yields the warning when it is not decodable base64.  A run in
\* which the crypto primitive itself throws ends in its warning.
C2_ChangeOfDecodedBytesInvalidates ==
  ChangedFromValid =>
    LET new == CurrentVerify
        old == base.c
    IN  IF ~Verifiable(new) THEN verificationResult = NullResult
        ELSE \/ verificationResult = CryptoWarning
             \/ IF base.field \in {"payload", "secret"}
                THEN \/ verificationResult = InvalidResult
                     \/ MacOf(new) = MacOf(old)
                ELSE IF DecodeThrows(new)
                THEN verificationResult = WarningResult(InvalidCharacterMessage)
                ELSE IF DecodeReceived(new) = DecodeReceived(old)
                THEN verificationResult = SuccessResult
                ELSE verificationResult = InvalidResult

\* C2's case: one character of the payload of a valid tuple was changed, the
\* HMAC differs, and verifyHMAC answered invalid.
C2_Witness ==
  /\ ChangedFromValid
  /\ base.field = "payload"
  /\ MacOf(CurrentVerify) # MacOf(base.c)
  /\ verificationResult = InvalidResult

\* C5: a completed verifyHMAC run ends in one of three results.  It is
\* 'success' with isValid true only if the received signature decoded to
\* exactly the bytes of the recomputed HMAC, and always then unless the
\* primitive threw; 'error' with isValid false only if it decoded to other
\* bytes; 'warning' with isValid false only if decoding threw or the crypto
\* primitive threw.
C5_ThreeOutcomes ==
  (verifiedInputs # NoCall /\ Verifiable(verifiedInputs)) =>
    LET c == verifiedInputs
        r == verificationResult
        matches == ~DecodeThrows(c) /\ DecodeReceived(c) = MacOf(c)
    IN  /\ r.type \in {"success", "error", "warning"}
        /\ r.isValid <=> r.type = "success"
        /\ r.type = "success" => matches
        /\ r.type = "error" => ~DecodeThrows(c) /\ DecodeReceived(c) # MacOf(c)
        /\ r.type = "warning" => DecodeThrows(c) \/ r = CryptoWarning
        /\ matches => r = SuccessResult \/ r = CryptoWarning
        /\ r.type = "success" => r = SuccessResult
        /\ r.type = "error" => r = InvalidResult

\* C5's case: a received signature of the HMAC's length, one byte off, was
\* verified and reported invalid.
C5_Witness ==
  /\ verifiedInputs # NoCall /\ Verifiable(verifiedInputs)
  /\ ~DecodeThrows(verifiedInputs)
  /\ Len(DecodeReceived(verifiedInputs)) = Len(MacOf(verifiedInputs))
  /\ DecodeReceived(verifiedInputs) # MacOf(verifiedInputs)
  /\ verificationResult = InvalidResult

\* The hex digits of a verify call's received signature.
HexOf(op) == StripNonHex(op.c.receivedSignature)
\* A verify call in hex mode that has decoded its received signature.
DecodedHex(op) == op.kind = "verify" /\ op.stage = "verify" /\ op.c.encoding = "hex"
Front(s) == SubSeq(s, 1, Len(s) - 1)

\* C9 as stated: with an odd number of hex digits the last digit is dropped;
\* the decoded bytes are those of the digits without the last.
C9_TrailingNibbleDropped ==
  \A i \in 1..Len(ops) :
    (DecodedHex(ops[i]) /\ Len(HexOf(ops[i])) % 2 = 1) =>
      ops[i].receivedSignatureBytes = HexToBytes(Front(HexOf(ops[i])))

\* C9 as amended: with an odd number of hex digits the last digit is decoded
\* as one more byte of its own, of the digit's value (0..15): the decoded
\* bytes are those of the digits without the last, followed by that byte.  A
\* correct hex signature followed by one more hex digit therefore decodes to
\* one byte more than the HMAC, and verifies as invalid.
C9_TrailingNibbleIsAByte ==
  /\ \A i \in 1..Len(ops) :
       (DecodedHex(ops[i]) /\ Len(HexOf(ops[i])) % 2 = 1) =>
         LET hex == HexOf(ops[i])
         IN  /\ ops[i].receivedSignatureBytes =
                  HexToBytes(Front(hex)) \o <<HexDigitValue(hex[Len(hex)])>>
             /\ ops[i].receivedSignatureBytes[(Len(hex) + 1) \div 2] \in 0..15
  /\ (/\ base # NoBase /\ base.field = "appended"
      /\ encoding = "hex"
      /\ IsHexDigit(receivedSignature[Len(receivedSignature)])
      /\ VerifiedNow)
     => /\ Len(HexToBytes(receivedSignature)) = Len(MacOf(CurrentVerify)) + 1
        /\ verificationResult \in {InvalidResult, CryptoWarning}

\* C9's case: a valid hex signature with one more hex digit typed after it
\* has been decoded by a verify call.
C9_Witness ==
  /\ base # NoBase /\ base.field = "appended"
  /\ \E i \in 1..Len(ops) :
       /\ DecodedHex(ops[i])
       /\ ops[i].c = CurrentVerify
       /\ Len(HexOf(ops[i])) % 2 = 1
       /\ Len(ops[i].receivedSignatureBytes) = Len(MacOf(ops[i].c)) + 1

\* C10: in hex mode decoding never throws.  A call that has decoded holds one
\* byte per pair of hex digits of the received string (a last single digit
\* counting as a pair), each in 0..255, and none when the string has no hex
\* digit; a completed call ends in 'success' or 'error', in 'warning' only
\* when the crypto primitive threw; a string with no hex digit ends invalid.
C10_HexNeverThrows ==
  /\ \A i \in 1..Len(ops) :
       DecodedHex(ops[i]) =>
         /\ Len(ops[i].receivedSignatureBytes) = (Len(HexOf(ops[i])) + 1) \div 2
         /\ \A k \in 1..Len(ops[i].receivedSignatureBytes) :
              ops[i].receivedSignatureBytes[k] \in 0..255
  /\ (/\ verifiedInputs # NoCall /\ Verifiable(verifiedInputs)
      /\ verifiedInputs.encoding = "hex")
     => /\ verificationResult \in {SuccessResult, InvalidResult, CryptoWarning}
        /\ StripNonHex(verifiedInputs.receivedSignature) = <<>>
             => verificationResult \in {InvalidResult, CryptoWarning}

\* C10's case: a received string without any hex digit was verified in hex
\* mode and reported invalid.
C10_Witness ==
  /\ verifiedInputs # NoCall /\ Verifiable(verifiedInputs)
  /\ verifiedInputs.encoding = "hex"
  /\ StripNonHex(verifiedInputs.receivedSignature) = <<>>
  /\ verificationResult = InvalidResult

(***************************************************************************)
(* Properties of the reactive component.                                   *)
(***************************************************************************)
PendingTimers(kind) == {i \in 1..Len(timers) : timers[i].kind = kind}
\* No timer is pending and no call is suspended: unless an input changes,
\* nothing more happens, and what is displayed stays displayed.
Quiescent == timers = <<>> /\ ops = <<>>

\* What generateHMAC and verifyHMAC compute for a closure.
SignatureOf(c) == EncodeSignature(MacOf(c), c.encoding)
OutcomeOf(c) ==
  IF DecodeThrows(c) THEN WarningResult(InvalidCharacterMessage)
  ELSE VerificationOutcome(DecodeReceived(c) = MacOf(c))

\* C3: once the inputs have stopped changing, every timer has fired and every
\* started call has completed, the displayed signature is that of the latest
\* inputs and the displayed verification result is the outcome for the latest
\* inputs.  (A crypto primitive that threw is allowed for: no signature, the
\* crypto warning.)
C3_FinalDisplayIsForLatestInputs ==
  Quiescent =>
    /\ IF IsBlank(payload) \/ IsBlank(secret)
       THEN generatedSignature = <<>>
       ELSE generatedSignature \in {SignatureOf(CurrentGenerate), <<>>}
    /\ IF ~Verifiable(CurrentVerify)
       THEN verificationResult = NullResult
       ELSE verificationResult \in {OutcomeOf(CurrentVerify), CryptoWarning}

\* C4 as stated: at most one generate timer and one verify timer are pending;
\* a pending timer's callback closes over the current inputs; a burst of input
\* changes, each less than 300ms after the one before, starts exactly one
\* generateHMAC and exactly one verifyHMAC: never a second one, and one of
\* each when the burst is over (every timer has fired).
C4_OneOperationOfEachPerBurst ==
  /\ Cardinality(PendingTimers("generate")) <= 1
  /\ Cardinality(PendingTimers("verify")) <= 1
  /\ \A i \in 1..Len(timers) :
       timers[i].c = IF timers[i].kind = "generate" THEN CurrentGenerate ELSE CurrentVerify
  /\ verStarts <= 1 /\ genStarts <= 1
  /\ timers = <<>> => verStarts = 1 /\ genStarts = 1

\* C4 as amended: at most one generate timer and one verify timer are pending,
\* and a pending timer's callback closes over the current inputs.  Every input
\* change cancels and restarts the verify timer, so no verify timer fires less
\* than 300ms after a change and a burst starts exactly one verifyHMAC.  Only
\* a change of payload, secret, algorithm or encoding cancels and restarts the
\* generate timer: a burst of such changes starts exactly one generateHMAC,
\* while a change of receivedSignature leaves a pending generate timer running
\* and starts none.
C4_DebouncePerEffect ==
  /\ Cardinality(PendingTimers("generate")) <= 1
  /\ Cardinality(PendingTimers("verify")) <= 1
  /\ \A i \in 1..Len(timers) :
       timers[i].c = IF timers[i].kind = "generate" THEN CurrentGenerate ELSE CurrentVerify
  /\ \A i \in PendingTimers("verify") : timers[i].remaining + sinceChange >= DebounceMs
  /\ verStarts <= 1
  /\ timers = <<>> => verStarts = 1
  /\ ~burstHasReceived => genStarts <= 1 /\ (timers = <<>> => genStarts = 1)

\* C4's case: a burst of at least two changes of payload, secret, algorithm
\* or encoding is over, and it started one generateHMAC and one verifyHMAC.
C4_Witness ==
  /\ burstChanges >= 2 /\ ~burstHasReceived
  /\ timers = <<>>
  /\ genStarts = 1 /\ verStarts = 1
  /\ Len(ops) = 2

\* A verify call whose received signature atob rejects.
MalformedBase64(c) ==
  Verifiable(c) /\ c.encoding = "base64" /\ AtobThrows(c.receivedSignature)

\* C6: in base64 mode a verifyHMAC run on a received signature that is not
\* decodable ends in 'warning' (it does not throw out of the call), and no
\* step of the run changes the inputs, generatedSignature, the generation
\* error text or isGenerating.
C6_MalformedBase64IsAWarning ==
  [][/\ (/\ TimerDue /\ Head(timers).kind = "verify"
         /\ MalformedBase64(Head(timers).c)
         /\ FireVerifyTimer)
        => UNCHANGED <<inputs, generatedSignature, error, isGenerating>>
     /\ \A i \in 1..Len(ops) :
          (/\ ops[i].kind = "verify" /\ MalformedBase64(ops[i].c)
           /\ \E fail \in BOOLEAN : VerifyImportKeyDone(i, fail))
          => /\ verificationResult'.type = "warning"
             /\ UNCHANGED <<inputs, generatedSignature, error, isGenerating>>]_vars

\* C7: generateHMAC called with a payload or secret that is empty after
\* trimming suspends no call, sets generatedSignature and the error text to
\* the empty string and leaves isGenerating alone; and once no timer is
\* pending and no call is suspended with such inputs, the signature and the
\* error text displayed are empty.
C7_EmptyInputsEndNeutral ==
  [][/\ (/\ TimerDue /\ Head(timers).kind = "generate"
         /\ (IsBlank(Head(timers).c.payload) \/ IsBlank(Head(timers).c.secret))
         /\ FireGenerateTimer)
        => /\ ops' = ops /\ isGenerating' = isGenerating
           /\ generatedSignature' = <<>> /\ error' = ""
     /\ (Quiescent' /\ (IsBlank(payload') \/ IsBlank(secret')))
        => generatedSignature' = <<>> /\ error' = ""]_vars

\* C8: a generate call whose crypto primitive fails sets a non-empty error
\* text and clears generatedSignature; and while payload, secret, algorithm
\* and encoding stay as they were for that call (no generate timer pending),
\* no step empties the error text.
C8_GenerationErrorStays ==
  [][/\ \A i \in 1..Len(ops) :
          (GenerateImportKeyDone(i, TRUE) \/ GenerateSignDone(i, TRUE))
          => error' # "" /\ generatedSignature' = <<>>
     /\ (/\ error # ""
         /\ signedInputs = CurrentGenerate
         /\ PendingTimers("generate") = {}
         /\ <<payload', secret', algorithm', encoding'>> =
              <<payload, secret, algorithm, encoding>>)
        => error' # ""]_vars

\* C11: no step of a verifyHMAC run (the call up to its first await, with the
\* early return, and the continuation after each await, in all three
\* outcomes) changes generatedSignature, the generation error text or
\* isGenerating.
C11_VerifyLeavesGenerationStateAlone ==
  [][(FireVerifyTimer \/ VerifyImportKeySettles \/ VerifyVerifySettles)
     => UNCHANGED <<generatedSignature, error, isGenerating>>]_vars

\* The generate calls that passed the emptiness check and have not completed.
InFlightGenerate == {i \in 1..Len(ops) : ops[i].kind = "generate"}

\* C12: isGenerating is true whenever a generate call that passed the
\* emptiness check has not completed, also when a second call started before
\* an earlier one completed; and it is false once every generate call has
\* completed.
C12_IsGeneratingTracksInFlight ==
  isGenerating = (InFlightGenerate # {})

====
